---- MODULE Spec2Model ----
(***************************************************************************)
(* A model of the menu item generator backend (backend/app/utils.py and    *)
(* backend/app/views.py): input sanitization, the per-client sliding       *)
(* window rate limiter, the deterministic (mock) generator with its        *)
(* keyword upsell rules, the chat and search providers, and the request    *)
(* handler generate_item_details with its fallback.                        *)
(*                                                                         *)
(* A Python str is a sequence of one-character strings; a Python value     *)
(* that may be of several types (a decoded JSON value) is a record         *)
(* [t, s, n] with t its type.  time.time() is an integer number of         *)
(* seconds.                                                                *)
(***************************************************************************)
EXTENDS Integers, Sequences, FiniteSets, TLC

VARIABLES
    _BUCKETS,   \* utils._BUCKETS: client identifier -> deque of timestamps
    clock,      \* the value time.time() returns
    admitted,   \* history: the timestamps of the admitted calls still inside the window at `clock`
    lastCall,   \* history: the last finished check_rate_limit call and its result
    rejectedAt, \* history: the time of the last rejected call, -1 when none
    wpc,        \* per worker: its position inside check_rate_limit
    wnow,       \* per worker: its local `now`
    wret,       \* per worker: what its last call returned
    pc,         \* the request handler: "idle", "received", "responded"
    served,     \* the number of requests received so far outside a burst
    burst,      \* the number of plain requests the client still sends in a row
    req,        \* the request being handled
    env,        \* the provider credentials of the process environment
    resp,       \* the response of the handler
    net,        \* the outbound HTTP calls the handler made for this request, with their outcomes
    input,      \* the argument a pure function is applied to
    output      \* its result

rateVars == <<_BUCKETS, clock, admitted, lastCall, rejectedAt>>
workerVars == <<wpc, wnow, wret>>
handlerVars == <<pc, served, burst, req, env, resp, net>>
pureVars == <<input, output>>
vars == <<_BUCKETS, clock, admitted, lastCall, rejectedAt, wpc, wnow, wret, pc, served, burst, req, env, resp, net, input, output>>

-----------------------------------------------------------------------------
(* Python values *)

PyStr(s) == [t |-> "str", s |-> s, n |-> 0]
PyInt(k) == [t |-> "int", s |-> <<>>, n |-> k]
PyNone == [t |-> "none", s |-> <<>>, n |-> 0]
PyList == [t |-> "list", s |-> <<>>, n |-> 0]
\* a key that the dict does not hold
Missing == [t |-> "missing", s |-> <<>>, n |-> 0]

\* isinstance(v, str)
IsStr(v) == v.t = "str"

\* bool(v) for the values above: "", 0, None are falsy; the list modelled is non-empty
Truthy(v) ==
    CASE v.t = "str" -> v.s # <<>>
      [] v.t = "int" -> v.n # 0
      [] v.t = "list" -> TRUE
      [] OTHER -> FALSE

\* dict.get(key, default) on a field that holds Missing when the key is absent
DictGet(field, default) == IF field.t = "missing" THEN default ELSE field

\* str(v) of a decoded JSON value (the integers modelled are single digits)
DigitChars == <<"0","1","2","3","4","5","6","7","8","9">>
PyStrOf(v) ==
    CASE v.t = "str" -> v.s
      [] v.t = "int" -> <<DigitChars[v.n + 1]>>
      [] v.t = "none" -> <<"N","o","n","e">>
      [] OTHER -> <<"[","1","]">>

-----------------------------------------------------------------------------
(* Characters and str methods *)

UpperChars == <<"A","B","C","D","E","F","G","H","I","J","K","L","M","N","O","P","Q","R","S","T","U","V","W","X","Y","Z">>
LowerChars == <<"a","b","c","d","e","f","g","h","i","j","k","l","m","n","o","p","q","r","s","t","u","v","w","x","y","z">>
\* the characters \s matches and str.strip() removes (ASCII)
Whitespace == {" ", "\t", "\n", "\r", "\f"}
\* the literal punctuation of _ALLOWED_PATTERN
AllowedPunct == {"-", "&", "'", "(", ")", ",", ".", "+", "/"}
Range(seq) == {seq[i] : i \in 1..Len(seq)}
\* the character class of _ALLOWED_PATTERN: [A-Za-z0-9\s\-\&\'\(\)\,\.\+\/]
_ALLOWED_CLASS == Range(UpperChars) \cup Range(LowerChars) \cup Range(DigitChars) \cup Whitespace \cup AllowedPunct

IsSpace(c) == c \in Whitespace

\* str.lower() of one character
LowerMap == [c \in Range(UpperChars) |-> LowerChars[CHOOSE i \in 1..26 : UpperChars[i] = c]]
UpperSet == Range(UpperChars)
LowerChar(c) == IF c \in UpperSet THEN LowerMap[c] ELSE c
\* str.lower()
Lower(s) == SubSeq([i \in 1..Len(s) |-> LowerChar(s[i])], 1, Len(s))

\* str.startswith(prefix)
StartsWith(s, prefix) == Len(s) >= Len(prefix) /\ SubSeq(s, 1, Len(prefix)) = prefix

\* the positions, in order, at which `flags` holds
Positions(flags) == SelectSeq([i \in 1..Len(flags) |-> i], LAMBDA i : flags[i])

\* str.strip()
Strip(s) ==
    LET solid == Positions([i \in 1..Len(s) |-> ~IsSpace(s[i])])
    IN IF solid = <<>> THEN <<>> ELSE SubSeq(s, solid[1], solid[Len(solid)])

\* str.split(): the maximal runs of non-whitespace characters, in order
Split(s) ==
    LET starts == Positions([i \in 1..Len(s) |-> ~IsSpace(s[i]) /\ (i = 1 \/ IsSpace(s[i - 1]))])
        ends == Positions([i \in 1..Len(s) |-> ~IsSpace(s[i]) /\ (i = Len(s) \/ IsSpace(s[i + 1]))])
    IN [k \in 1..Len(starts) |-> SubSeq(s, starts[k], ends[k])]

\* sep.join(words)
RECURSIVE Join(_, _)
Join(words, sep) ==
    IF Len(words) = 0 THEN <<>>
    ELSE IF Len(words) = 1 THEN words[1]
    ELSE LET half == Len(words) \div 2
         IN Join(SubSeq(words, 1, half), sep) \o sep \o Join(SubSeq(words, half + 1, Len(words)), sep)

\* the line boundaries str.splitlines() splits at (ASCII); "\r\n" is taken as two
\* boundaries, which adds an empty line that every caller drops
LineBreaks == {"\n", "\r", "\f"}
SplitLines(s) ==
    LET breaks == Positions([i \in 1..Len(s) |-> s[i] \in LineBreaks])
        StartOf(k) == IF k = 1 THEN 1 ELSE breaks[k - 1] + 1
        EndOf(k) == IF k > Len(breaks) THEN Len(s) ELSE breaks[k] - 1
        \* no line after a final line break
        count == IF s = <<>> \/ (breaks # <<>> /\ breaks[Len(breaks)] = Len(s))
                 THEN Len(breaks) ELSE Len(breaks) + 1
    IN [k \in 1..count |-> SubSeq(s, StartOf(k), EndOf(k))]

\* re.sub(r"\s+", " ", s)
CollapseSpaces(s) ==
    LET kept == Positions([i \in 1..Len(s) |-> ~(IsSpace(s[i]) /\ i > 1 /\ IsSpace(s[i - 1]))])
    IN [k \in 1..Len(kept) |-> IF IsSpace(s[kept[k]]) THEN " " ELSE s[kept[k]]]

\* whether `pat` occurs in `text` as a substring
Contains(text, pat) ==
    \E i \in 1..(Len(text) - Len(pat) + 1) : \A j \in 1..Len(pat) : text[i + j - 1] = pat[j]

\* re.search of a pattern that is an alternation of literals, given as their sequence
ReSearch(alts, text) == \E k \in 1..Len(alts) : Contains(text, alts[k])
\* the same with flags=re.I (the literals of both rule tables are lower-case)
ReSearchI(alts, text) ==
    \E k \in 1..Len(alts) : \E i \in 1..(Len(text) - Len(alts[k]) + 1) :
        \A j \in 1..Len(alts[k]) : LowerChar(text[i + j - 1]) = alts[k][j]

-----------------------------------------------------------------------------
(* Input validation: sanitize_item_name, truncate_words *)

MIN_NAME_LEN == 2
MAX_NAME_LEN == 120
WORD_LIMIT == 30

\* a returned value, or the ValueError raised
Ok(v) == [ok |-> TRUE, value |-> v, error |-> ""]
Raise(msg) == [ok |-> FALSE, value |-> <<>>, error |-> msg]

\* _ALLOWED_PATTERN.match(name): ^[...]+$
AllowedMatch(name) == name # <<>> /\ \A i \in 1..Len(name) : name[i] \in _ALLOWED_CLASS

\* two faulty variants: the whitespace runs are left as they are; the upper length is not tested
sanitize_item_name_NoCollapse(name) ==
    IF ~IsStr(name) THEN Raise("itemName must be a string.")
    ELSE LET stripped == Strip(name.s)
         IN IF Len(stripped) < MIN_NAME_LEN \/ Len(stripped) > MAX_NAME_LEN
                THEN Raise("itemName length must be between 2 and 120 characters.")
            ELSE IF ~AllowedMatch(stripped)
                THEN Raise("itemName contains invalid characters.")
            ELSE Ok(stripped)
sanitize_item_name_NoUpper(name) ==
    IF ~IsStr(name) THEN Raise("itemName must be a string.")
    ELSE LET stripped == Strip(name.s)
         IN IF Len(stripped) < MIN_NAME_LEN
                THEN Raise("itemName length must be between 2 and 120 characters.")
            ELSE IF ~AllowedMatch(stripped)
                THEN Raise("itemName contains invalid characters.")
            ELSE Ok(CollapseSpaces(stripped))

sanitize_item_name(name) ==
    IF ~IsStr(name) THEN Raise("itemName must be a string.")
    ELSE LET stripped == Strip(name.s)
         IN IF Len(stripped) < MIN_NAME_LEN \/ Len(stripped) > MAX_NAME_LEN
                THEN Raise("itemName length must be between 2 and 120 characters.")
            ELSE IF ~AllowedMatch(stripped)
                THEN Raise("itemName contains invalid characters.")
            ELSE Ok(CollapseSpaces(stripped))

\* a faulty variant: nothing is cut
truncate_words_NoCut(s, limit) == Strip(s)

truncate_words(s, limit) ==
    LET words == Split(Strip(s))
    IN IF Len(words) <= limit THEN Strip(s)
       ELSE Join(SubSeq(words, 1, limit), <<" ">>)

\* len(s.split())
WordCount(s) == Len(Split(s))

-----------------------------------------------------------------------------
(* The deterministic generator: mock_generate and its upsell rules *)

_ADJECTIVES == <<
    <<"s","m","o","k","y">>, <<"c","r","e","a","m","y">>, <<"z","e","s","t","y">>, <<"a","r","o","m","a","t","i","c">>, <<"s","p","i","c","e","d">>, <<"b","u","t","t","e","r","y">>, <<"c","h","a","r","-","g","r","i","l","l","e","d">>, <<"t","a","n","g","y">>,
    <<"h","a","n","d","-","t","o","s","s","e","d">>, <<"o","v","e","n","-","f","r","e","s","h">>, <<"h","e","r","b","-","i","n","f","u","s","e","d">>, <<"b","u","t","t","e","r","m","i","l","k">>, <<"v","e","l","v","e","t","y">>, <<"c","a","r","a","m","e","l","i","z","e","d">>, <<"c","r","i","s","p">>, <<"j","u","i","c","y">> >>

\* a rule: the alternatives of its pattern, and its suggestion
Rule(alts, upsell) == [pat |-> alts, upsell |-> upsell]

_UPSELL_BY_KEYWORD == <<
    Rule(<<<<"p","a","n","e","e","r">>, <<"t","i","k","k","a">>>>, <<"M","a","n","g","o"," ","L","a","s","s","i">>),
    Rule(<<<<"p","i","z","z","a">>, <<"m","a","r","g","h","e","r","i","t","a">>, <<"p","e","p","p","e","r","o","n","i">>>>, <<"G","a","r","l","i","c"," ","B","r","e","a","d">>),
    Rule(<<<<"b","i","r","y","a","n","i">>>>, <<"R","a","i","t","a">>),
    Rule(<<<<"b","u","r","g","e","r">>, <<"c","h","e","e","s","e">>>>, <<"C","r","i","s","p","y"," ","F","r","i","e","s">>),
    Rule(<<<<"n","o","o","d","l","e">>, <<"r","a","m","e","n">>>>, <<"S","p","r","i","n","g"," ","R","o","l","l","s">>),
    Rule(<<<<"t","a","n","d","o","o","r","i">>, <<"k","e","b","a","b">>>>, <<"M","i","n","t"," ","C","h","u","t","n","e","y">>),
    Rule(<<<<"p","a","s","t","a">>>>, <<"G","a","r","l","i","c"," ","B","r","e","a","d">>),
    Rule(<<<<"s","a","l","a","d">>>>, <<"I","c","e","d"," ","T","e","a">>),
    Rule(<<<<"w","r","a","p">>, <<"r","o","l","l">>>>, <<"M","a","s","a","l","a"," ","F","r","i","e","s">>) >>

\* ord(c), for the hash below
CharTable == UpperChars \o LowerChars \o DigitChars \o <<" ", "-", "&", "'", "(", ")", ",", ".", "+", "/", ":">>
OrdMap == [c \in Range(CharTable) |-> CHOOSE i \in 1..Len(CharTable) : CharTable[i] = c]
Ord(c) == IF c \in DOMAIN OrdMap THEN OrdMap[c] ELSE 0

\* int(hashlib.sha256(s.encode()).hexdigest(), 16).  SHA-256 is library code: the
\* digest is modelled by a 16-bit checksum of the same argument, the sum of
\* ord(s[i]) * i over the positions lo..hi.
RECURSIVE Checksum(_, _, _)
Checksum(s, lo, hi) ==
    IF lo > hi THEN 0
    ELSE IF lo = hi THEN (Ord(s[lo]) * lo) % 65536
    ELSE (Checksum(s, lo, (lo + hi) \div 2) + Checksum(s, (lo + hi) \div 2 + 1, hi)) % 65536
Sha256Int(s) == Checksum(s, 1, Len(s))

\* random.Random(seed).choice(seq).  The generator is library code: the draw is
\* modelled by indexing with the seed, a function of (seq, seed) alone as in the code.
_deterministic_choice(seq, seed) == seq[(seed % Len(seq)) + 1]

\* a faulty variant: the loop does not break, so the last matching rule wins
RECURSIVE LastMatch(_, _, _, _)
LastMatch(rules, text, k, found) ==
    IF k > Len(rules) THEN found
    ELSE LastMatch(rules, text, k + 1, IF ReSearchI(rules[k].pat, text) THEN rules[k].upsell ELSE found)
UpsellSubject_LastWins(item_name) == LastMatch(_UPSELL_BY_KEYWORD, item_name, 1, <<"I","c","e","d"," ","T","e","a">>)

\* the loop of mock_generate over _UPSELL_BY_KEYWORD, from rule k on
RECURSIVE UpsellLoop(_, _)
UpsellLoop(item_name, k) ==
    IF k > Len(_UPSELL_BY_KEYWORD) THEN <<"I","c","e","d"," ","T","e","a">>
    ELSE IF ReSearchI(_UPSELL_BY_KEYWORD[k].pat, item_name) THEN _UPSELL_BY_KEYWORD[k].upsell
    ELSE UpsellLoop(item_name, k + 1)
UpsellSubject(item_name) == UpsellLoop(item_name, 1)

\* a faulty variant: the seed is drawn from the model hint as well
mock_generate_HintSeeded(item_name, model_hint) ==
    LET seed == Sha256Int(Lower(item_name \o model_hint))
        adj1 == _deterministic_choice(_ADJECTIVES, seed)
        adj2 == _deterministic_choice(_ADJECTIVES, seed \div 2)
        base == item_name \o <<":"," ">> \o adj1 \o <<","," ">> \o adj2
                \o <<" ","a","n","d"," ","c","r","a","f","t","e","d"," ","t","o"," ","h","i","g","h","l","i","g","h","t"," ","b","a","l","a","n","c","e","d"," ","s","p","i","c","e","s"," ","a","n","d"," ","t","e","x","t","u","r","e","s","."," ","S","e","r","v","e","d"," ","h","o","t"," ","f","o","r"," ","m","a","x","i","m","u","m"," ","f","l","a","v","o","r",".">>
        description == truncate_words(base, WORD_LIMIT)
        upsell_line == <<"P","a","i","r"," ","i","t"," ","w","i","t","h"," ","a"," ">> \o UpsellSubject(item_name) \o <<"!">>
    IN <<description, upsell_line>>

\* mock_generate(item_name, model_hint): <<description, upsell_line>>
mock_generate(item_name, model_hint) ==
    LET seed == Sha256Int(Lower(item_name))
        adj1 == _deterministic_choice(_ADJECTIVES, seed)
        adj2 == _deterministic_choice(_ADJECTIVES, seed \div 2)
        base == item_name \o <<":"," ">> \o adj1 \o <<","," ">> \o adj2
                \o <<" ","a","n","d"," ","c","r","a","f","t","e","d"," ","t","o"," ","h","i","g","h","l","i","g","h","t"," ","b","a","l","a","n","c","e","d"," ","s","p","i","c","e","s"," ","a","n","d"," ","t","e","x","t","u","r","e","s","."," ","S","e","r","v","e","d"," ","h","o","t"," ","f","o","r"," ","m","a","x","i","m","u","m"," ","f","l","a","v","o","r",".">>
        description == truncate_words(base, WORD_LIMIT)
        upsell_line == <<"P","a","i","r"," ","i","t"," ","w","i","t","h"," ","a"," ">> \o UpsellSubject(item_name) \o <<"!">>
    IN <<description, upsell_line>>

-----------------------------------------------------------------------------
(* The search provider's rules: serp_pick_upsell_from_text *)

_SERP_UPSELL_CANDIDATES == <<
    Rule(<<<<"l","a","s","s","i">>>>, <<"a"," ","M","a","n","g","o"," ","L","a","s","s","i">>),
    Rule(<<<<"g","a","r","l","i","c"," ","b","r","e","a","d">>>>, <<"G","a","r","l","i","c"," ","B","r","e","a","d">>),
    Rule(<<<<"n","a","a","n">>, <<"b","u","t","t","e","r"," ","n","a","a","n">>>>, <<"B","u","t","t","e","r"," ","N","a","a","n">>),
    Rule(<<<<"r","a","i","t","a">>>>, <<"R","a","i","t","a">>),
    Rule(<<<<"f","r","i","e","s">>, <<"c","h","i","p","s">>>>, <<"C","r","i","s","p","y"," ","F","r","i","e","s">>),
    Rule(<<<<"s","a","l","a","d">>>>, <<"a"," ","F","r","e","s","h"," ","S","a","l","a","d">>),
    Rule(<<<<"i","c","e","d"," ","t","e","a">>, <<"l","e","m","o","n"," ","t","e","a">>>>, <<"I","c","e","d"," ","T","e","a">>),
    Rule(<<<<"s","o","d","a">>, <<"c","o","l","a">>>>, <<"a"," ","C","h","i","l","l","e","d"," ","S","o","d","a">>),
    Rule(<<<<"m","i","n","t"," ","c","h","u","t","n","e","y">>>>, <<"M","i","n","t"," ","C","h","u","t","n","e","y">>),
    Rule(<<<<"s","p","r","i","n","g"," ","r","o","l","l","s">>>>, <<"S","p","r","i","n","g"," ","R","o","l","l","s">>),
    Rule(<<<<"g","u","l","a","b"," ","j","a","m","u","n">>>>, <<"G","u","l","a","b"," ","J","a","m","u","n">>) >>

\* the loop of serp_pick_upsell_from_text, from rule k on
RECURSIVE SerpLoop(_, _)
SerpLoop(text_low, k) ==
    IF k > Len(_SERP_UPSELL_CANDIDATES) THEN PyNone
    ELSE IF ReSearch(_SERP_UPSELL_CANDIDATES[k].pat, text_low)
        THEN PyStr(_SERP_UPSELL_CANDIDATES[k].upsell)
    ELSE SerpLoop(text_low, k + 1)
serp_pick_upsell_from_text(text) == SerpLoop(Lower(text), 1)

-----------------------------------------------------------------------------
(* The rate limiter: check_rate_limit over _BUCKETS *)

WINDOW_SEC == 900
MAX_REQUESTS == 60

\* _BUCKETS[ip] of a defaultdict(deque): an empty deque for a client not seen yet
BucketOf(buckets, ip) == IF ip \in DOMAIN buckets THEN buckets[ip] ELSE <<>>
SetBucket(buckets, ip, dq) == [c \in DOMAIN buckets \cup {ip} |-> IF c = ip THEN dq ELSE buckets[c]]

\* while dq and now - dq[0] > WINDOW_SEC: dq.popleft()
\* the entries from the first one on that is not older than the window
DropOld(dq, now) ==
    LET fresh == Positions([i \in 1..Len(dq) |-> ~(now - dq[i] > WINDOW_SEC)])
    IN IF fresh = <<>> THEN <<>> ELSE SubSeq(dq, fresh[1], Len(dq))

\* a faulty variant: nothing is ever dropped
check_rate_limit_NoDrop(buckets, ip, now) ==
    LET dq == BucketOf(buckets, ip)
    IN IF Len(dq) >= MAX_REQUESTS
       THEN [ok |-> FALSE, buckets |-> SetBucket(buckets, ip, dq)]
       ELSE [ok |-> TRUE, buckets |-> SetBucket(buckets, ip, Append(dq, now))]

\* two faulty variants: a rejected call is recorded as well; one call too many is admitted
check_rate_limit_RecordsRejected(buckets, ip, now) ==
    LET dq == DropOld(BucketOf(buckets, ip), now)
    IN IF Len(dq) >= MAX_REQUESTS
       THEN [ok |-> FALSE, buckets |-> SetBucket(buckets, ip, Append(dq, now))]
       ELSE [ok |-> TRUE, buckets |-> SetBucket(buckets, ip, Append(dq, now))]
check_rate_limit_OffByOne(buckets, ip, now) ==
    LET dq == DropOld(BucketOf(buckets, ip), now)
    IN IF Len(dq) > MAX_REQUESTS
       THEN [ok |-> FALSE, buckets |-> SetBucket(buckets, ip, dq)]
       ELSE [ok |-> TRUE, buckets |-> SetBucket(buckets, ip, Append(dq, now))]

\* a faulty variant: every client is counted in the deque of one address
SharedKey == <<"1",".","1",".","1",".","1">>
check_rate_limit_OneBucket(buckets, ip, now) ==
    LET dq == DropOld(BucketOf(buckets, SharedKey), now)
    IN IF Len(dq) >= MAX_REQUESTS
       THEN [ok |-> FALSE, buckets |-> SetBucket(buckets, SharedKey, dq)]
       ELSE [ok |-> TRUE, buckets |-> SetBucket(buckets, SharedKey, Append(dq, now))]

\* check_rate_limit(ip) run as one step at time `now`: what it returns, and _BUCKETS after it
check_rate_limit(buckets, ip, now) ==
    LET dq == DropOld(BucketOf(buckets, ip), now)
    IN IF Len(dq) >= MAX_REQUESTS
       THEN [ok |-> FALSE, buckets |-> SetBucket(buckets, ip, dq)]
       ELSE [ok |-> TRUE, buckets |-> SetBucket(buckets, ip, Append(dq, now))]

\* history: the admissions of `hist` that lie inside the window that ends at `now`
InWindow(hist, now) == SelectSeq(hist, LAMBDA t : now - t <= WINDOW_SEC)

NoCall == [made |-> FALSE, ip |-> <<>>, now |-> 0, result |-> FALSE, prior |-> 0]

RateIdle ==
    /\ _BUCKETS = << >>
    /\ clock = 0
    /\ admitted = << >>
    /\ lastCall = NoCall
    /\ rejectedAt = -1
WorkersIdle ==
    /\ wpc = << >>
    /\ wnow = << >>
    /\ wret = << >>
HandlerIdle ==
    /\ pc = "idle"
    /\ served = 0
    /\ burst = 0
    /\ req = << >>
    /\ env = << >>
    /\ resp = << >>
    /\ net = << >>
\* no pure function applied yet
NoOutput == [of |-> "none", result |-> << >>]
PureIdle ==
    /\ input = << >>
    /\ output = NoOutput

(* Sequential calls of one client, with the clock moving between them *)

MaxTicks == 2
RateClient == <<"1",".","1",".","1",".","1">>
\* the clock moves by a whole window, or by a second more
TickSteps == {WINDOW_SEC, WINDOW_SEC + 1}

InitRate == RateIdle /\ WorkersIdle /\ HandlerIdle /\ PureIdle

RateCall ==
    LET r == check_rate_limit(_BUCKETS, RateClient, clock)
        prior == Len(InWindow(admitted, clock))
    IN /\ _BUCKETS' = r.buckets
       /\ admitted' = IF r.ok THEN Append(admitted, clock) ELSE admitted
       /\ lastCall' = [made |-> TRUE, ip |-> RateClient, now |-> clock, result |-> r.ok, prior |-> prior]
       /\ rejectedAt' = IF r.ok THEN rejectedAt ELSE clock
       /\ UNCHANGED <<clock, workerVars, handlerVars, pureVars>>

RateTick ==
    \E d \in TickSteps :
        /\ clock + d <= MaxTicks * (WINDOW_SEC + 1)
        /\ clock' = clock + d
        /\ admitted' = InWindow(admitted, clock + d)
        /\ UNCHANGED <<_BUCKETS, lastCall, rejectedAt, workerVars, handlerVars, pureVars>>

NextRate == RateCall \/ RateTick
SpecRate == InitRate /\ [][NextRate]_vars

-----------------------------------------------------------------------------
(* Concurrent request workers inside check_rate_limit.  The function takes no
   lock: a worker may be preempted between any two of its steps (the test of
   `dq`, the read of dq[0], popleft, the test of len(dq), append). *)

NumWorkers == 2
MaxConcTicks == 1
Workers == 1..NumWorkers

InitConc ==
    /\ RateIdle /\ HandlerIdle /\ PureIdle
    /\ wpc = [w \in Workers |-> "idle"]
    /\ wnow = [w \in Workers |-> 0]
    /\ wret = [w \in Workers |-> "none"]

\* now = time.time(); dq = _BUCKETS[ip]
WorkerEnter(w) ==
    /\ wpc[w] = "idle"
    /\ wnow' = [wnow EXCEPT ![w] = clock]
    /\ wpc' = [wpc EXCEPT ![w] = "while"]
    /\ wret' = [wret EXCEPT ![w] = "none"]
    /\ _BUCKETS' = SetBucket(_BUCKETS, RateClient, BucketOf(_BUCKETS, RateClient))
    /\ UNCHANGED <<clock, admitted, lastCall, rejectedAt, handlerVars, pureVars>>

\* while dq ...: the truth test of the deque
WorkerTestDeque(w) ==
    /\ wpc[w] = "while"
    /\ wpc' = [wpc EXCEPT ![w] = IF _BUCKETS[RateClient] # <<>> THEN "peek" ELSE "len"]
    /\ UNCHANGED <<rateVars, wnow, wret, handlerVars, pureVars>>

\* ... and now - dq[0] > WINDOW_SEC: dq[0] raises IndexError on a deque emptied meanwhile
WorkerPeek(w) ==
    /\ wpc[w] = "peek"
    /\ IF _BUCKETS[RateClient] = <<>>
       THEN /\ wpc' = [wpc EXCEPT ![w] = "idle"]
            /\ wret' = [wret EXCEPT ![w] = "IndexError"]
       ELSE /\ wpc' = [wpc EXCEPT ![w] =
                        IF wnow[w] - Head(_BUCKETS[RateClient]) > WINDOW_SEC THEN "popleft" ELSE "len"]
            /\ wret' = wret
    /\ UNCHANGED <<rateVars, wnow, handlerVars, pureVars>>

\* dq.popleft(): raises IndexError on a deque emptied meanwhile
WorkerPopleft(w) ==
    /\ wpc[w] = "popleft"
    /\ IF _BUCKETS[RateClient] = <<>>
       THEN /\ wpc' = [wpc EXCEPT ![w] = "idle"]
            /\ wret' = [wret EXCEPT ![w] = "IndexError"]
            /\ _BUCKETS' = _BUCKETS
       ELSE /\ wpc' = [wpc EXCEPT ![w] = "while"]
            /\ wret' = wret
            /\ _BUCKETS' = [_BUCKETS EXCEPT ![RateClient] = Tail(@)]
    /\ UNCHANGED <<clock, admitted, lastCall, rejectedAt, wnow, handlerVars, pureVars>>

\* if len(dq) >= MAX_REQUESTS: return False
WorkerTestLen(w) ==
    /\ wpc[w] = "len"
    /\ IF Len(_BUCKETS[RateClient]) >= MAX_REQUESTS
       THEN /\ wpc' = [wpc EXCEPT ![w] = "idle"]
            /\ wret' = [wret EXCEPT ![w] = "False"]
       ELSE /\ wpc' = [wpc EXCEPT ![w] = "append"]
            /\ wret' = wret
    /\ UNCHANGED <<rateVars, wnow, handlerVars, pureVars>>

\* dq.append(now); return True
WorkerAppend(w) ==
    /\ wpc[w] = "append"
    /\ _BUCKETS' = [_BUCKETS EXCEPT ![RateClient] = Append(@, wnow[w])]
    /\ admitted' = InWindow(Append(admitted, wnow[w]), clock)
    /\ wpc' = [wpc EXCEPT ![w] = "idle"]
    /\ wret' = [wret EXCEPT ![w] = "True"]
    /\ UNCHANGED <<clock, lastCall, rejectedAt, wnow, handlerVars, pureVars>>

ConcTick ==
    /\ clock < MaxConcTicks * (WINDOW_SEC + 1)
    /\ clock' = clock + WINDOW_SEC + 1
    /\ admitted' = InWindow(admitted, clock + WINDOW_SEC + 1)
    /\ UNCHANGED <<_BUCKETS, lastCall, rejectedAt, workerVars, handlerVars, pureVars>>

NextConc ==
    \/ \E w \in Workers :
        \/ WorkerEnter(w)
        \/ WorkerTestDeque(w)
        \/ WorkerPeek(w)
        \/ WorkerPopleft(w)
        \/ WorkerTestLen(w)
        \/ WorkerAppend(w)
    \/ ConcTick
SpecConc == InitConc /\ [][NextConc]_vars

-----------------------------------------------------------------------------
(* The chat provider: call_openai.  What the remote end does is an input:
   an outcome of the HTTP exchange (utils.py lines 113 to 116), and for a
   reply that carries a message, its content and what json.loads makes of it. *)

\* a function's result: a value returned or an exception raised, and the HTTP calls it made
Returned(v, calls) == [raised |-> FALSE, value |-> v, net |-> calls]
Raised(calls) == [raised |-> TRUE, value |-> <<>>, net |-> calls]

\* json.loads(content): no JSON, a JSON object with these two keys, or another JSON value
JsonError == [kind |-> "error", description |-> Missing, upsell |-> Missing]
JsonDict(d, u) == [kind |-> "dict", description |-> d, upsell |-> u]
JsonOther == [kind |-> "other", description |-> Missing, upsell |-> Missing]

\* the outcomes of the exchange
OpenAIFailure(kind) == [kind |-> kind, content |-> PyNone, json |-> JsonError]
OpenAIContent(text, json) == [kind |-> "content", content |-> text, json |-> json]

HttpCall(provider, what, outcome) == [provider |-> provider, what |-> what, outcome |-> outcome]

\* call_openai(system_prompt, user_prompt, model_name): <<description, upsell>> or an
\* exception.  The prompts only travel to the remote end and are left out.
call_openai(environ, model_name, reply) ==
    IF ~environ.OPENAI_API_KEY THEN Raised(<<>>)
    ELSE LET calls == <<HttpCall("openai", model_name, reply.kind)>>
         IN \* requests.post, raise_for_status, resp.json(), data["choices"][0]["message"]["content"]
            IF reply.kind # "content" THEN Raised(calls)
            \* try: json.loads(content), parsed.get(...)
            ELSE IF IsStr(reply.content) /\ reply.json.kind = "dict"
            THEN LET description == truncate_words(Strip(PyStrOf(DictGet(reply.json.description, PyStr(<<>>)))), WORD_LIMIT)
                     upsell == Strip(PyStrOf(DictGet(reply.json.upsell, PyStr(<<>>))))
                 IN Returned(<<description,
                               IF ~StartsWith(Lower(upsell), <<"p","a","i","r"," ","i","t"," ","w","i","t","h">>)
                               THEN <<"P","a","i","r"," ","i","t"," ","w","i","t","h"," ">> \o upsell \o <<".">> ELSE upsell>>, calls)
            \* except Exception: content.splitlines() raises on a content that is no str
            ELSE IF ~IsStr(reply.content) THEN Raised(calls)
            ELSE LET lines == SelectSeq([i \in 1..Len(SplitLines(reply.content.s)) |-> Strip(SplitLines(reply.content.s)[i])],
                                        LAMBDA ln : ln # <<>>)
                     description == IF lines # <<>> THEN truncate_words(lines[1], WORD_LIMIT) ELSE <<"T","a","s","t","y"," ","a","n","d"," ","s","a","t","i","s","f","y","i","n","g",".">>
                     upsell == IF Len(lines) > 1 THEN lines[2] ELSE <<"P","a","i","r"," ","i","t"," ","w","i","t","h"," ","a"," ","r","e","f","r","e","s","h","i","n","g"," ","b","e","v","e","r","a","g","e","!">>
                 IN Returned(<<description, upsell>>, calls)

-----------------------------------------------------------------------------
(* The search provider: call_serpapi_for_upsell.  What each search returns is
   an input: an exception, a response that is not OK, or organic results. *)

SerpRaise == [kind |-> "raise", organic |-> <<>>]
SerpNotOk == [kind |-> "not_ok", organic |-> <<>>]
SerpOk(organic) == [kind |-> "ok", organic |-> organic]
Organic(title, snippet) == [title |-> title, snippet |-> snippet]

\* " ".join(filter(None, [*titles, *snippets]))
AllText(organic) ==
    LET titles == [i \in 1..Len(organic) |-> organic[i].title]
        snippets == [i \in 1..Len(organic) |-> organic[i].snippet]
        kept == SelectSeq(titles \o snippets, LAMBDA v : Truthy(v))
    IN Join([i \in 1..Len(kept) |-> kept[i].s], <<" ">>)

\* the queries list
Queries(item_name) == <<
    <<"b","e","s","t"," ","s","i","d","e"," ","t","o"," ","p","a","i","r"," ","w","i","t","h"," ">> \o item_name,
    item_name \o <<" ","w","h","a","t"," ","t","o"," ","d","r","i","n","k"," ","w","i","t","h">>,
    item_name \o <<" ","a","c","c","o","m","p","a","n","i","m","e","n","t"," ","p","o","p","u","l","a","r">> >>

\* the fallbacks by cuisine, on the item name
CuisineFallback(item_name) ==
    IF ReSearchI(<<<<"p","a","n","e","e","r">>, <<"t","i","k","k","a">>, <<"t","a","n","d","o","o","r","i">>, <<"k","e","b","a","b">>, <<"b","i","r","y","a","n","i">>, <<"n","a","a","n">>>>, item_name) THEN <<"a"," ","M","a","n","g","o"," ","L","a","s","s","i">>
    ELSE IF ReSearchI(<<<<"p","i","z","z","a">>, <<"p","a","s","t","a">>>>, item_name) THEN <<"G","a","r","l","i","c"," ","B","r","e","a","d">>
    ELSE IF ReSearchI(<<<<"b","u","r","g","e","r">>>>, item_name) THEN <<"C","r","i","s","p","y"," ","F","r","i","e","s">>
    ELSE <<"I","c","e","d"," ","T","e","a">>

\* a faulty variant: a response that is not OK ends the loop
RECURSIVE SerpQueryLoop_StopsAtNotOk(_, _, _, _)
SerpQueryLoop_StopsAtNotOk(item_name, results, k, calls) ==
    IF k > Len(Queries(item_name))
    THEN Returned(<<"P","a","i","r"," ","i","t"," ","w","i","t","h"," ">> \o CuisineFallback(item_name) \o <<"!">>, calls)
    ELSE LET issued == Append(calls, HttpCall("serpapi", Queries(item_name)[k], results[k].kind))
         IN IF results[k].kind = "raise" THEN Returned(<<"P","a","i","r"," ","i","t"," ","w","i","t","h"," ","I","c","e","d"," ","T","e","a","!">>, issued)
            ELSE IF results[k].kind = "not_ok"
                THEN Returned(<<"P","a","i","r"," ","i","t"," ","w","i","t","h"," ">> \o CuisineFallback(item_name) \o <<"!">>, issued)
            ELSE LET found == serp_pick_upsell_from_text(AllText(results[k].organic))
                 IN IF Truthy(found) THEN Returned(<<"P","a","i","r"," ","i","t"," ","w","i","t","h"," ">> \o found.s \o <<"!">>, issued)
                    ELSE SerpQueryLoop_StopsAtNotOk(item_name, results, k + 1, issued)

\* the loop over the queries from query k on; results[k] is what search k returns
RECURSIVE SerpQueryLoop(_, _, _, _)
SerpQueryLoop(item_name, results, k, calls) ==
    IF k > Len(Queries(item_name))
    THEN Returned(<<"P","a","i","r"," ","i","t"," ","w","i","t","h"," ">> \o CuisineFallback(item_name) \o <<"!">>, calls)
    ELSE LET issued == Append(calls, HttpCall("serpapi", Queries(item_name)[k], results[k].kind))
         IN IF results[k].kind = "raise" THEN Returned(<<"P","a","i","r"," ","i","t"," ","w","i","t","h"," ","I","c","e","d"," ","T","e","a","!">>, issued)
            ELSE IF results[k].kind = "not_ok" THEN SerpQueryLoop(item_name, results, k + 1, issued)
            ELSE LET found == serp_pick_upsell_from_text(AllText(results[k].organic))
                 IN IF Truthy(found) THEN Returned(<<"P","a","i","r"," ","i","t"," ","w","i","t","h"," ">> \o found.s \o <<"!">>, issued)
                    ELSE SerpQueryLoop(item_name, results, k + 1, issued)

\* call_serpapi_for_upsell(item_name): the upsell line; it never raises
call_serpapi_for_upsell(item_name, environ, results) ==
    IF ~environ.SERPAPI_KEY THEN Returned(<<"P","a","i","r"," ","i","t"," ","w","i","t","h"," ","a"," ","r","e","f","r","e","s","h","i","n","g"," ","b","e","v","e","r","a","g","e","!">>, <<>>)
    ELSE SerpQueryLoop(item_name, results, 1, <<>>)

-----------------------------------------------------------------------------
(* The request handler: _client_ip and generate_item_details *)

\* s.split(",")[0]
FirstField(s) ==
    LET commas == Positions([i \in 1..Len(s) |-> s[i] = ","])
    IN IF commas = <<>> THEN s ELSE SubSeq(s, 1, commas[1] - 1)

\* _client_ip(request), from request.META
_client_ip(meta) ==
    IF Truthy(meta.HTTP_X_FORWARDED_FOR) THEN Strip(FirstField(meta.HTTP_X_FORWARDED_FOR.s))
    ELSE DictGet(meta.REMOTE_ADDR, PyStr(<<"u","n","k","n","o","w","n">>)).s

\* a JsonResponse; `unhandled` marks an exception that left the view (Django answers 500)
NoResponse == [status |-> 0, detail |-> "", itemName |-> <<>>, model |-> <<>>,
               description |-> <<>>, upsell |-> <<>>, wordCount |-> 0, unhandled |-> FALSE]
Detail(status, detail) == [NoResponse EXCEPT !.status = status, !.detail = detail]
Unhandled(exception) == [NoResponse EXCEPT !.status = 500, !.detail = exception, !.unhandled = TRUE]
Success(item_name, model_used, description, upsell) ==
    [status |-> 200, detail |-> "", itemName |-> item_name, model |-> model_used,
     description |-> description, upsell |-> upsell, wordCount |-> WordCount(description),
     unhandled |-> FALSE]

\* what one run of the view leaves: the response, _BUCKETS, the HTTP calls made
Handled(response, buckets, calls) == [resp |-> response, buckets |-> buckets, net |-> calls]

\* the response and the calls of a dispatch, with the buckets the limiter left
Dispatched(done, buckets) == Handled(done.resp, buckets, done.net)

\* lines 75 to 84, after the dispatch: `mock` is what mock_generate returns, `chat`
\* what call_openai does, `search` what call_serpapi_for_upsell returns
Respond(item_name, mode, model_choice, model_name, mock, chat, search) ==
    IF mode = <<"o","p","e","n","a","i">>
    THEN IF chat.raised
         THEN [resp |-> Success(item_name, <<"m","o","c","k","-">> \o model_choice, mock[1], mock[2]), net |-> chat.net]
         ELSE [resp |-> Success(item_name, <<"o","p","e","n","a","i","-">> \o model_name, chat.value[1], chat.value[2]), net |-> chat.net]
    ELSE IF mode = <<"s","e","r","p","a","p","i">>
    THEN [resp |-> Success(item_name, <<"s","e","r","p","a","p","i","+","m","o","c","k","-","d","e","s","c">>, mock[1], search.value), net |-> search.net]
    ELSE [resp |-> Success(item_name, <<"m","o","c","k","-">> \o model_choice, mock[1], mock[2]), net |-> <<>>]

\* the model the chat provider is asked for
ModelName(model_choice) == IF Contains(model_choice, <<"3",".","5">>) THEN <<"g","p","t","-","3",".","5","-","t","u","r","b","o">> ELSE <<"g","p","t","-","4","o","-","m","i","n","i">>

\* lines 46 to 84: dispatch on the mode, the fallback, the response
Dispatch(item_name, mode, model_choice, environ, world) ==
    Respond(item_name, mode, model_choice, ModelName(model_choice),
            mock_generate(item_name, model_choice),
            call_openai(environ, ModelName(model_choice), world.openai),
            call_serpapi_for_upsell(item_name, environ, world.serp))

\* lines 41 to 84: `clean` is what sanitize_item_name did
Validated(clean, mode, model_choice, buckets, environ, world) ==
    IF ~clean.ok THEN Handled(Detail(400, clean.error), buckets, <<>>)
    ELSE Dispatched(Dispatch(clean.value, mode, model_choice, environ, world), buckets)

\* lines 37 to 84, on the decoded payload
Parsed(item_name, mode, model_choice, buckets, environ, world) ==
    \* .lower() on a mode or model that is no str
    IF ~IsStr(mode) \/ ~IsStr(model_choice) THEN Handled(Unhandled("AttributeError"), buckets, <<>>)
    ELSE Validated(sanitize_item_name(item_name), Lower(mode.s), Lower(model_choice.s), buckets, environ, world)

\* lines 32 to 84, once the rate limiter let the request pass
Admitted(body, buckets, environ, world) ==
    \* json.loads(request.body.decode("utf-8")) raises
    IF body.kind = "invalid" THEN Handled(Detail(400, "Invalid JSON body"), buckets, <<>>)
    \* payload.get on a JSON value that is no object
    ELSE IF body.kind # "dict" THEN Handled(Unhandled("AttributeError"), buckets, <<>>)
    ELSE Parsed(DictGet(body.itemName, PyStr(<<>>)),
                IF Truthy(DictGet(body.mode, PyNone)) THEN body.mode ELSE PyStr(<<"m","o","c","k">>),
                IF Truthy(DictGet(body.model, PyNone)) THEN body.model ELSE PyStr(<<"g","p","t","-","4">>),
                buckets, environ, world)

\* a faulty variant: the body is decoded before the answer of the limiter is looked at
Limited_ParseFirst(limit, body, environ, world) ==
    IF body.kind = "invalid" THEN Handled(Detail(400, "Invalid JSON body"), limit.buckets, <<>>)
    ELSE IF ~limit.ok THEN Handled(Detail(429, "Rate limit exceeded. Try later."), limit.buckets, <<>>)
    ELSE Admitted(body, limit.buckets, environ, world)

\* lines 28 to 84: `limit` is what check_rate_limit did
Limited(limit, body, environ, world) ==
    IF ~limit.ok THEN Handled(Detail(429, "Rate limit exceeded. Try later."), limit.buckets, <<>>)
    ELSE Admitted(body, limit.buckets, environ, world)

\* a faulty variant: the limiter is asked before the method is tested
generate_item_details_LimitsEveryMethod(request, buckets, now, environ, world) ==
    IF request.method # "POST"
    THEN Handled(Detail(405, "Method not allowed"),
                 check_rate_limit(buckets, _client_ip(request.meta), now).buckets, <<>>)
    ELSE Limited(check_rate_limit(buckets, _client_ip(request.meta), now), request.body, environ, world)

\* generate_item_details(request), run at time `now` against `buckets`
generate_item_details(request, buckets, now, environ, world) ==
    IF request.method # "POST" THEN Handled(Detail(405, "Method not allowed"), buckets, <<>>)
    ELSE Limited(check_rate_limit(buckets, _client_ip(request.meta), now), request.body, environ, world)

-----------------------------------------------------------------------------
(* Requests, and what the remote ends answer: the inputs of the handler *)

\* item names: absent, null, too short, a character outside the pattern, blanks to
\* strip and collapse around two matching rules, no matching rule, more than 15 words
ItemNames == {
    Missing, PyNone, PyStr(<<"x">>), PyStr(<<"T","o","m","@","t","o"," ","S","o","u","p">>),
    PyStr(<<" "," ","C","h","e","e","s","e"," ","\t"," ","P","i","z","z","a"," ">>), PyStr(<<"M","y","s","t","e","r","y"," ","B","o","w","l">>),
    PyStr(<<"T","h","a","l","i"," ","7"," ","(","D","a","l",","," ","R","i","c","e",","," ","R","o","t","i",","," ","R","a","i","t","a",","," ","N","a","a","n",","," ","P","a","p","a","d",","," ","P","i","c","k","l","e",","," ","S","a","l","a","d",","," ","C","u","r","d",","," ","K","h","e","e","r"," ","+"," ","3"," ","S","i","d","e","s",")"," ","&"," ","a"," ","L","a","s","s","i">>) }
Modes == {Missing, PyInt(5), PyStr(<<>>), PyStr(<<"m","o","c","k">>), PyStr(<<"O","p","e","n","A","I">>), PyStr(<<"s","e","r","p","a","p","i">>), PyStr(<<"d","e","e","p","s","e","e","k">>)}
ModelChoices == {Missing, PyInt(5), PyStr(<<"G","P","T","-","3",".","5">>)}

Body(kind, itemName, mode, model) == [kind |-> kind, itemName |-> itemName, mode |-> mode, model |-> model]
Bodies ==
    {Body("invalid", Missing, Missing, Missing), Body("list", Missing, Missing, Missing)}
    \cup {Body("dict", n, m, c) : n \in ItemNames, m \in Modes, c \in ModelChoices}

\* request.META: a forwarded-for header naming the client first, or the peer address
\* alone; the last one is a second client
OtherClient == <<"2",".","2",".","2",".","2">>
Metas == {
    [HTTP_X_FORWARDED_FOR |-> PyStr(<<" ","1",".","1",".","1",".","1",","," ","1","0",".","0",".","0",".","2">>), REMOTE_ADDR |-> PyStr(<<"1","0",".","0",".","0",".","9">>)],
    [HTTP_X_FORWARDED_FOR |-> Missing, REMOTE_ADDR |-> PyStr(<<"1",".","1",".","1",".","1">>)],
    [HTTP_X_FORWARDED_FOR |-> Missing, REMOTE_ADDR |-> PyStr(OtherClient)] }

Requests ==
    {[method |-> "POST", meta |-> m, body |-> b] : m \in Metas, b \in Bodies}
    \cup {[method |-> "GET", meta |-> m, body |-> Body("invalid", Missing, Missing, Missing)] : m \in Metas}

\* a text of n words
Words(n) == SubSeq([i \in 1..(2 * n - 1) |-> IF i % 2 = 1 THEN "y" ELSE " "], 1, 2 * n - 1)

\* the replies of the chat provider
OpenAIReplies == {
    OpenAIFailure("timeout"), OpenAIFailure("http_error"), OpenAIFailure("bad_body"),
    \* a message without text content
    OpenAIContent(PyNone, JsonError),
    \* the JSON asked for; a description of more than 30 words
    OpenAIContent(PyStr(<<"{","\"","d","e","s","c","r","i","p","t","i","o","n","\"",":"," ","\"">> \o Words(WORD_LIMIT + 3) \o <<"\"",","," ","\"","u","p","s","e","l","l","\"",":"," ","\"","P","a","i","r"," ","i","t"," ","w","i","t","h"," ","a"," ","C","o","l","a","!","\"","}">>),
                  JsonDict(PyStr(Words(WORD_LIMIT + 3)), PyStr(<<"P","a","i","r"," ","i","t"," ","w","i","t","h"," ","a"," ","C","o","l","a","!">>))),
    \* an upsell without the prefix, and one with the prefix in lower case
    OpenAIContent(PyStr(<<"{","\"","d","e","s","c","r","i","p","t","i","o","n","\"",":"," ","\""," ","C","r","i","s","p"," ","a","n","d"," ","f","r","e","s","h","."," ","\"",","," ","\"","u","p","s","e","l","l","\"",":"," ","\"","g","a","r","l","i","c"," ","b","r","e","a","d","\"","}">>),
                  JsonDict(PyStr(<<" ","C","r","i","s","p"," ","a","n","d"," ","f","r","e","s","h","."," ">>), PyStr(<<"g","a","r","l","i","c"," ","b","r","e","a","d">>))),
    OpenAIContent(PyStr(<<"{","\"","d","e","s","c","r","i","p","t","i","o","n","\"",":"," ","\"","H","o","t"," ","a","n","d"," ","f","r","e","s","h",".","\"",","," ","\"","u","p","s","e","l","l","\"",":"," ","\"","p","a","i","r"," ","i","t"," ","w","i","t","h"," ","f","r","i","e","s","\"","}">>),
                  JsonDict(PyStr(<<"H","o","t"," ","a","n","d"," ","f","r","e","s","h",".">>), PyStr(<<"p","a","i","r"," ","i","t"," ","w","i","t","h"," ","f","r","i","e","s">>))),
    \* keys absent or of another type
    OpenAIContent(PyStr(<<"{","\"","u","p","s","e","l","l","\"",":"," ","5","}">>), JsonDict(Missing, PyInt(5))),
    OpenAIContent(PyStr(<<"{","\"","d","e","s","c","r","i","p","t","i","o","n","\"",":"," ","n","u","l","l","}">>), JsonDict(PyNone, Missing)),
    \* JSON that is no object
    OpenAIContent(PyStr(<<"[","1","]">>), JsonOther),
    \* no JSON: two lines, one long line, no line
    OpenAIContent(PyStr(<<"A"," ","t","a","s","t","y"," ","d","i","s","h",".","\n","\n","T","r","y"," ","o","u","r"," ","f","r","i","e","s","\n">>), JsonError),
    OpenAIContent(PyStr(Words(WORD_LIMIT + 1)), JsonError),
    OpenAIContent(PyStr(<<" ","\n">>), JsonError) }

\* what one search returns
SerpResults == {
    SerpRaise, SerpNotOk,
    SerpOk(<<>>),
    SerpOk(<<Organic(PyStr(<<"B","e","s","t"," ","S","i","d","e","s">>), PyStr(<<"S","e","r","v","e"," ","w","i","t","h"," ","R","A","I","T","A"," ","o","r"," ","b","u","t","t","e","r"," ","n","a","a","n">>))>>),
    SerpOk(<<Organic(PyNone, PyStr(<<"c","r","i","s","p","y"," ","c","h","i","p","s">>)), Organic(PyStr(<<"D","r","i","n","k","s">>), PyNone)>>) }
NumQueries == 3
\* the searches a run consumes: up to the first that raises or matches
RECURSIVE Consumed(_, _)
Consumed(results, k) ==
    IF k > Len(results) THEN results
    ELSE IF results[k].kind = "raise"
            \/ (results[k].kind = "ok" /\ Truthy(serp_pick_upsell_from_text(AllText(results[k].organic))))
        THEN SubSeq(results, 1, k)
    ELSE Consumed(results, k + 1)
SerpRuns == {Consumed(r, 1) : r \in [1..NumQueries -> SerpResults]}

QuietWorld == [openai |-> OpenAIFailure("timeout"), serp |-> <<SerpRaise>>]
\* the remote behaviours that make a difference to this request
WorldsAfter(probe) ==
    IF probe = <<>> THEN {QuietWorld}
    ELSE IF probe[1].provider = "openai" THEN {[QuietWorld EXCEPT !.openai = o] : o \in OpenAIReplies}
    ELSE {[QuietWorld EXCEPT !.serp = r] : r \in SerpRuns}
WorldsFor(request, buckets, now, environ) ==
    WorldsAfter(generate_item_details(request, buckets, now, environ, QuietWorld).net)

-----------------------------------------------------------------------------
(* The server: requests arrive and are handled one after the other *)

MaxServed == 1
\* a well-formed request for the mock generator
PlainRequest ==
    [method |-> "POST",
     meta |-> [HTTP_X_FORWARDED_FOR |-> Missing, REMOTE_ADDR |-> PyStr(RateClient)],
     body |-> Body("dict", PyStr(<<"M","y","s","t","e","r","y"," ","B","o","w","l">>), Missing, Missing)]

Init ==
    /\ RateIdle /\ WorkersIdle /\ PureIdle
    /\ pc = "idle"
    /\ served = 0
    /\ burst = 0
    /\ req = << >>
    /\ env \in [OPENAI_API_KEY : BOOLEAN, SERPAPI_KEY : BOOLEAN]
    /\ resp = NoResponse
    /\ net = << >>

\* a POST of the same client whose body is no JSON
InvalidPost == [PlainRequest EXCEPT !.body = Body("invalid", Missing, Missing, Missing)]
BurstRequests == {PlainRequest, InvalidPost}

\* the client starts a burst of requests: one short of the quota, or the whole quota
StartBurst ==
    /\ pc = "idle"
    /\ burst = 0
    /\ burst' \in {MAX_REQUESTS - 1, MAX_REQUESTS}
    /\ UNCHANGED <<rateVars, workerVars, pc, served, req, env, resp, net, pureVars>>

\* a request arrives: the next one of the burst, or any request
Receive ==
    /\ pc = "idle"
    /\ IF burst > 0
       THEN /\ burst' = burst - 1
            /\ served' = served
            /\ req' \in BurstRequests
       ELSE /\ served < MaxServed
            /\ served' = served + 1
            /\ burst' = burst
            /\ \E r \in Requests : req' = r
    /\ pc' = "received"
    /\ UNCHANGED <<rateVars, workerVars, env, resp, net, pureVars>>

\* the view runs
Handle ==
    /\ pc = "received"
    /\ \E world \in WorldsFor(req, _BUCKETS, clock, env) :
        \E h \in {generate_item_details(req, _BUCKETS, clock, env, world)} :
            /\ resp' = h.resp
            /\ net' = h.net
            /\ _BUCKETS' = h.buckets
    /\ pc' = "responded"
    /\ UNCHANGED <<clock, admitted, lastCall, rejectedAt, workerVars, served, burst, req, env, pureVars>>

\* the response is sent and the request forgotten
Send ==
    /\ pc = "responded"
    /\ pc' = "idle"
    /\ req' = << >>
    /\ resp' = NoResponse
    /\ net' = << >>
    /\ UNCHANGED <<rateVars, workerVars, served, burst, env, pureVars>>

Next == StartBurst \/ Receive \/ Handle \/ Send
Spec == Init /\ [][Next]_vars

-----------------------------------------------------------------------------
(* The sanitizer on its own: sanitize_item_name applied to one raw value *)

MaxShortLen == 4
MaxPad == 1
\* a letter, two kinds of whitespace, an allowed punctuation mark, a character outside the pattern
SanitizeAlphabet == {"a", " ", "\t", "-", "@"}
Repeat(c, n) == [i \in 1..n |-> c]
\* every string over the alphabet up to MaxShortLen characters
ShortStrings == UNION {{SubSeq(f, 1, n) : f \in [1..n -> SanitizeAlphabet]} : n \in 0..MaxShortLen}
\* strings around the upper length, with up to MaxPad blanks on either side,
\* and two strings of the upper length: one with a whitespace run, one with "@"
LongStrings ==
    {Repeat(" ", l) \o Repeat("a", n) \o Repeat(" ", t) :
        l \in 0..MaxPad, t \in 0..MaxPad, n \in (MAX_NAME_LEN - 2)..(MAX_NAME_LEN + 1)}
    \cup {Repeat("a", MAX_NAME_LEN - 3) \o <<" ", "\t", "a">>, Repeat("a", MAX_NAME_LEN - 1) \o <<"@">>}
SanitizeInputs == {PyStr(s) : s \in ShortStrings \cup LongStrings} \cup {PyNone, PyInt(5), PyList}

InitSanitize ==
    /\ RateIdle /\ WorkersIdle /\ HandlerIdle
    /\ input \in SanitizeInputs
    /\ output = NoOutput

Sanitize ==
    /\ output = NoOutput
    /\ output' = [of |-> "sanitize_item_name", result |-> sanitize_item_name(input)]
    /\ UNCHANGED <<rateVars, workerVars, handlerVars, input>>

NextSanitize == Sanitize
SpecSanitize == InitSanitize /\ [][NextSanitize]_vars

-----------------------------------------------------------------------------
(* The two rule tables on their own: the loop of mock_generate and
   serp_pick_upsell_from_text applied to one text *)

MaxFragments == 2
\* a literal of every rule of both tables, some in another case, and a word no rule knows
Fragments == {
    <<"p","a","n","e","e","r">>, <<"p","i","z","z","a">>, <<"b","i","r","y","a","n","i">>, <<"b","u","r","g","e","r">>, <<"c","h","e","e","s","e">>, <<"n","o","o","d","l","e">>, <<"t","a","n","d","o","o","r","i">>, <<"p","a","s","t","a">>,
    <<"s","a","l","a","d">>, <<"w","r","a","p">>,
    <<"l","a","s","s","i">>, <<"g","a","r","l","i","c"," ","b","r","e","a","d">>, <<"n","a","a","n">>, <<"r","a","i","t","a">>, <<"f","r","i","e","s">>, <<"i","c","e","d"," ","t","e","a">>, <<"s","o","d","a">>,
    <<"m","i","n","t"," ","c","h","u","t","n","e","y">>, <<"s","p","r","i","n","g"," ","r","o","l","l","s">>, <<"g","u","l","a","b"," ","j","a","m","u","n">>,
    <<"P","I","Z","Z","A">>, <<"L","e","m","o","n"," ","T","e","a">>, <<"p","l","a","i","n">> }
\* the texts of up to n fragments
RECURSIVE TextsOf(_)
TextsOf(n) ==
    IF n = 0 THEN {<<>>}
    ELSE TextsOf(n - 1) \cup {t \o <<" ">> \o f : t \in TextsOf(n - 1), f \in Fragments}

InitUpsell ==
    /\ RateIdle /\ WorkersIdle /\ HandlerIdle
    /\ input \in TextsOf(MaxFragments)
    /\ output = NoOutput

Infer ==
    /\ output = NoOutput
    /\ output' = [of |-> "upsell",
                  result |-> [mock |-> UpsellSubject(input), serp |-> serp_pick_upsell_from_text(input)]]
    /\ UNCHANGED <<rateVars, workerVars, handlerVars, input>>

NextUpsell == Infer
SpecUpsell == InitUpsell /\ [][NextUpsell]_vars

-----------------------------------------------------------------------------
(* The search provider on its own: call_serpapi_for_upsell with the credential
   set, applied to an item name and to what each of the searches would return *)

\* names for each cuisine fallback, and one that none of them knows
SerpNames == {<<"P","a","n","e","e","r"," ","T","i","k","k","a">>, <<"C","h","e","e","s","e"," ","P","i","z","z","a">>, <<"V","e","g"," ","B","u","r","g","e","r">>, <<"M","y","s","t","e","r","y"," ","B","o","w","l">>}
SerpInputs == {[item_name |-> n, results |-> r] : n \in SerpNames, r \in [1..NumQueries -> SerpResults]}
KeysSet == [OPENAI_API_KEY |-> TRUE, SERPAPI_KEY |-> TRUE]

InitSerp ==
    /\ RateIdle /\ WorkersIdle /\ HandlerIdle
    /\ input \in SerpInputs
    /\ output = NoOutput

Search ==
    /\ output = NoOutput
    /\ output' = [of |-> "call_serpapi_for_upsell",
                  result |-> call_serpapi_for_upsell(input.item_name, KeysSet, input.results)]
    /\ UNCHANGED <<rateVars, workerVars, handlerVars, input>>

NextSerp == Search
SpecSerp == InitSerp /\ [][NextSerp]_vars

-----------------------------------------------------------------------------
(* Properties *)

\* C1: for one client and calls made one after the other, a call made while
\* MAX_REQUESTS (60) admitted calls lie inside the window (WINDOW_SEC, 900 s) that
\* ends at the call returns false, and a call made once the window has fully
\* elapsed since every earlier admission returns true.
C1_RejectsWhenFullAdmitsAfterWindow ==
    lastCall.made =>
        /\ (lastCall.prior >= MAX_REQUESTS => ~lastCall.result)
        /\ (lastCall.prior = 0 => lastCall.result)
\* a call is admitted after an earlier call of the client was rejected
C1_Witness ==
    /\ lastCall.made /\ lastCall.result /\ lastCall.prior = 0
    /\ rejectedAt >= 0 /\ lastCall.now - rejectedAt > 0

\* C2: with several workers inside check_rate_limit for the same client, the
\* admissions whose timestamps lie inside one window never number more than
\* MAX_REQUESTS.
C2_AtMostMaxAdmissionsPerWindow == Len(admitted) <= MAX_REQUESTS


\* what a 200 response answers, read off the request and the calls made
OkResponse == pc = "responded" /\ resp.status = 200
RequestedMode == Lower(req.body.mode.s)
OpenAIFailed == ~env.OPENAI_API_KEY \/ (net # <<>> /\ net[1].outcome \in {"timeout", "http_error", "bad_body"})
SerpFailed == ~env.SERPAPI_KEY \/ \E i \in 1..Len(net) : net[i].outcome = "raise"
ProviderFailed ==
    \/ RequestedMode = <<"o","p","e","n","a","i">> /\ OpenAIFailed
    \/ RequestedMode = <<"s","e","r","p","a","p","i">> /\ SerpFailed
IsMockPair(m) == resp.description = m[1] /\ resp.upsell = m[2]

\* C3: a request that passed rate limiting and sanitization and selected the mode
\* openai or serpapi, whose provider failed (no credential, an error answer, a
\* malformed body, a timeout, an exception), is answered 200 with exactly the
\* description and upsell mock_generate returns for the item name.
C3_ProviderFailureFallsBackToMock ==
    (OkResponse /\ ProviderFailed) => IsMockPair(mock_generate(resp.itemName, <<>>))

\* C4: in a 200 response the model field names a provider only when a call to that
\* provider succeeded and supplied the content, and is "mock-..." whenever the
\* provider failed.
C4_ModelNamesPathTaken ==
    OkResponse =>
        /\ StartsWith(resp.model, <<"o","p","e","n","a","i","-">>) => (net # <<>> /\ net[1].outcome = "content")
        /\ resp.model = <<"s","e","r","p","a","p","i","+","m","o","c","k","-","d","e","s","c">> => \E i \in 1..Len(net) : net[i].outcome = "ok"
        /\ ProviderFailed => StartsWith(resp.model, <<"m","o","c","k","-">>)

\* C5: in a 200 response the upsell begins with "Pair it with ", whatever the
\* mode and whatever the provider replied.
C5_UpsellHasPrefix == OkResponse => StartsWith(resp.upsell, <<"P","a","i","r"," ","i","t"," ","w","i","t","h"," ">>)

\* C6: in a 200 response the description has at most 30 whitespace-separated
\* words and meta.wordCount is that number of words.
C6_DescriptionAtMostThirtyWords ==
    OkResponse =>
        /\ Len(Split(resp.description)) <= WORD_LIMIT
        /\ resp.wordCount = Len(Split(resp.description))
\* a provider text of more than 30 words was cut to 30
C6_Witness ==
    /\ OkResponse /\ StartsWith(resp.model, <<"o","p","e","n","a","i","-">>)
    /\ resp.wordCount = WORD_LIMIT

\* C7: every POST request ends in 200, 429 or 400, whatever its body; none ends
\* in an unhandled exception.
C7_PostEndsInTerminalState ==
    (pc = "responded" /\ req.method = "POST") => (resp.status \in {200, 429, 400} /\ ~resp.unhandled)

\* the raw string, read without the sanitizer
OnlyAllowed(s) == \A i \in 1..Len(s) : s[i] \in _ALLOWED_CLASS
HasSpaceRun(s) == \E i \in 1..(Len(s) - 1) : IsSpace(s[i]) /\ IsSpace(s[i + 1])
\* the length from the first to the last character that is no whitespace
TrimmedLen(s) ==
    IF \A i \in 1..Len(s) : IsSpace(s[i]) THEN 0
    ELSE (CHOOSE j \in 1..Len(s) : ~IsSpace(s[j]) /\ \A k \in (j + 1)..Len(s) : IsSpace(s[k]))
         - (CHOOSE i \in 1..Len(s) : ~IsSpace(s[i]) /\ \A k \in 1..(i - 1) : IsSpace(s[k])) + 1
Sanitized == output.of = "sanitize_item_name" /\ IsStr(input)

\* C8 (as stated): every string of length 2 to 120 made of allowed characters
\* only is accepted, and the result has no run of two or more whitespace characters.
C8_AcceptsByRawLength ==
    (Sanitized /\ Len(input.s) \in MIN_NAME_LEN..MAX_NAME_LEN /\ OnlyAllowed(input.s))
        => (output.result.ok /\ ~HasSpaceRun(output.result.value))
\* C8 (amended): every string made of allowed characters only whose length after
\* trimming the surrounding whitespace is 2 to 120 is accepted, and the result has
\* no run of two or more whitespace characters.
C8_AcceptsByTrimmedLength ==
    (Sanitized /\ TrimmedLen(input.s) \in MIN_NAME_LEN..MAX_NAME_LEN /\ OnlyAllowed(input.s))
        => (output.result.ok /\ ~HasSpaceRun(output.result.value))
\* an accepted string with a whitespace run between two other characters
C8_Witness ==
    /\ Sanitized /\ OnlyAllowed(input.s) /\ HasSpaceRun(input.s)
    /\ TrimmedLen(input.s) = Len(input.s)
    /\ output.result.ok

\* C9 (as stated): every string of length 1, every string of length 121 or more
\* and every string with a character outside the allow-list is refused.
C9_RefusesByRawLength ==
    (Sanitized /\ (Len(input.s) = 1 \/ Len(input.s) >= MAX_NAME_LEN + 1 \/ ~OnlyAllowed(input.s)))
        => ~output.result.ok
\* C9 (amended): every string of length 1, every string whose length after
\* trimming the surrounding whitespace is 121 or more, and every string with a
\* character outside the allow-list is refused.
C9_RefusesByTrimmedLength ==
    (Sanitized /\ (Len(input.s) = 1 \/ TrimmedLen(input.s) >= MAX_NAME_LEN + 1 \/ ~OnlyAllowed(input.s)))
        => ~output.result.ok
\* a refused string of allowed characters that is one character too long once trimmed
C9_Witness ==
    /\ Sanitized /\ OnlyAllowed(input.s) /\ TrimmedLen(input.s) = MAX_NAME_LEN + 1
    /\ ~output.result.ok

\* the rules of a table that match a text, case-insensitively, and the lowest of them
Matching(table, text) == {k \in 1..Len(table) : ReSearchI(table[k].pat, text)}
Lowest(S) == CHOOSE k \in S : \A j \in S : k <= j
Inferred == output.of = "upsell"

\* C10 (as stated): for both rule tables the subject is that of the lowest-indexed
\* rule that matches the text, and "Iced Tea" when no rule matches.
C10_FirstMatchElseIcedTea ==
    Inferred =>
        /\ output.result.mock =
            IF Matching(_UPSELL_BY_KEYWORD, input) = {} THEN <<"I","c","e","d"," ","T","e","a">>
            ELSE _UPSELL_BY_KEYWORD[Lowest(Matching(_UPSELL_BY_KEYWORD, input))].upsell
        /\ output.result.serp =
            IF Matching(_SERP_UPSELL_CANDIDATES, input) = {} THEN PyStr(<<"I","c","e","d"," ","T","e","a">>)
            ELSE PyStr(_SERP_UPSELL_CANDIDATES[Lowest(Matching(_SERP_UPSELL_CANDIDATES, input))].upsell)
\* C10 (amended): for both rule tables the subject is that of the lowest-indexed
\* rule that matches the text; when no rule matches, the loop over
\* _UPSELL_BY_KEYWORD yields "Iced Tea" and serp_pick_upsell_from_text yields None.
C10_FirstMatchWins ==
    Inferred =>
        /\ output.result.mock =
            IF Matching(_UPSELL_BY_KEYWORD, input) = {} THEN <<"I","c","e","d"," ","T","e","a">>
            ELSE _UPSELL_BY_KEYWORD[Lowest(Matching(_UPSELL_BY_KEYWORD, input))].upsell
        /\ output.result.serp =
            IF Matching(_SERP_UPSELL_CANDIDATES, input) = {} THEN PyNone
            ELSE PyStr(_SERP_UPSELL_CANDIDATES[Lowest(Matching(_SERP_UPSELL_CANDIDATES, input))].upsell)
\* a text that two rules of each table match
C10_Witness ==
    /\ Inferred
    /\ Cardinality(Matching(_UPSELL_BY_KEYWORD, input)) >= 2
    /\ Cardinality(Matching(_SERP_UPSELL_CANDIDATES, input)) >= 2

\* the request as the client sent it
ValidName == sanitize_item_name(DictGet(req.body.itemName, PyStr(<<>>))).ok
UnrecognizedMode == ~IsStr(req.body.mode) \/ Lower(req.body.mode.s) \notin {<<"o","p","e","n","a","i">>, <<"s","e","r","p","a","p","i">>}
AdmittedPost == pc = "responded" /\ req.method = "POST" /\ resp.status # 429

\* C11: an admitted request with a valid item name whose mode is absent, empty
\* or any value other than openai or serpapi (in any case) is answered by the
\* mock path: description and upsell are those of mock_generate, the model
\* starts with "mock-", and no outbound call is made.
C11_UnrecognizedModeIsMock ==
    (AdmittedPost /\ req.body.kind = "dict" /\ ValidName /\ UnrecognizedMode)
        => /\ resp.status = 200
           /\ IsMockPair(mock_generate(resp.itemName, <<>>))
           /\ StartsWith(resp.model, <<"m","o","c","k","-">>)
           /\ net = <<>>

\* C12: the description and upsell of mock_generate depend on the item name
\* alone: whatever the model hint of the request, the contents of the rate
\* limiter and the requests served before, a response of the mock generator
\* carries what mock_generate returns for the item name under one fixed hint.
C12_MockDependsOnNameOnly ==
    (OkResponse /\ ~StartsWith(resp.model, <<"o","p","e","n","a","i","-">>))
        => /\ resp.description = mock_generate(resp.itemName, <<"o","t","h","e","r">>)[1]
           /\ StartsWith(resp.model, <<"m","o","c","k","-">>) => resp.upsell = mock_generate(resp.itemName, <<"o","t","h","e","r">>)[2]
\* a mock response under the hint gpt-3.5 after the client filled its window
C12_Witness ==
    /\ OkResponse /\ StartsWith(resp.model, <<"m","o","c","k","-","g","p","t","-","3",".","5">>)
    /\ Len(BucketOf(_BUCKETS, RateClient)) = MAX_REQUESTS

\* C13: when the credential of the selected provider is not configured, the
\* provider call fails with an error and no outbound HTTP request is issued,
\* for the chat provider and for the search provider.
C13_MissingCredentialFailsWithoutCall ==
    /\ (OkResponse /\ RequestedMode = <<"o","p","e","n","a","i">> /\ ~env.OPENAI_API_KEY)
        => (net = <<>> /\ call_openai(env, ModelName(<<>>), QuietWorld.openai).raised)
    /\ (OkResponse /\ RequestedMode = <<"s","e","r","p","a","p","i">> /\ ~env.SERPAPI_KEY)
        => (net = <<>> /\ call_serpapi_for_upsell(resp.itemName, env, QuietWorld.serp).raised)

\* the step in which the view handles the request, and what the limiter holds before it
HandleStep == pc = "received" /\ pc' = "responded"
Requester == _client_ip(req.meta)
OwnCount == Len(InWindow(BucketOf(_BUCKETS, Requester), clock))
Clients == {RateClient, OtherClient}

\* C14: a POST whose client has used up its quota ends in 429 with no further
\* processing: whatever its body and item name, the answer is the 429 detail,
\* no outbound call is made and nothing is recorded.
C14_RefusedEndsIn429 ==
    [][(HandleStep /\ req.method = "POST" /\ OwnCount >= MAX_REQUESTS)
        => /\ resp' = Detail(429, "Rate limit exceeded. Try later.")
           /\ net' = <<>>
           /\ _BUCKETS' = _BUCKETS]_vars
\* a refused request whose body is no JSON
C14_Witness ==
    /\ pc = "responded" /\ resp.status = 429
    /\ req.body.kind = "invalid"

\* C18: every POST that the limiter admits records one timestamp for its client,
\* also when it ends in 400; a POST of a client whose window is full is answered
\* 429; a request that is no POST is answered 405 and records nothing.
C18_QuotaConsumedBeforeValidation ==
    [][HandleStep
        => /\ (req.method = "POST" /\ resp'.status # 429)
                => BucketOf(_BUCKETS', Requester) = Append(InWindow(BucketOf(_BUCKETS, Requester), clock), clock)
           /\ (req.method = "POST" /\ OwnCount >= MAX_REQUESTS) => resp'.status = 429
           /\ req.method # "POST" => (resp'.status = 405 /\ _BUCKETS' = _BUCKETS)]_vars
\* a POST that ended in 400 took the last place of the window
C18_Witness ==
    /\ pc = "responded" /\ resp.status = 400
    /\ Len(BucketOf(_BUCKETS, RateClient)) = MAX_REQUESTS

\* C19: handling a POST of one client leaves the window of every other client
\* unchanged, and the request is refused exactly when the client's own window
\* is full.
C19_ClientsAreIsolated ==
    [][(HandleStep /\ req.method = "POST")
        => /\ \A c \in Clients \ {Requester} : BucketOf(_BUCKETS', c) = BucketOf(_BUCKETS, c)
           /\ resp'.status = 429 <=> OwnCount >= MAX_REQUESTS]_vars
\* the second client is served while the window of the first is full
C19_Witness ==
    /\ pc = "responded" /\ resp.status = 200 /\ Requester = OtherClient
    /\ Len(BucketOf(_BUCKETS, RateClient)) = MAX_REQUESTS

\* the deque of the client of the sequential calls
Window == BucketOf(_BUCKETS, RateClient)
Sorted(dq) == \A i \in 1..(Len(dq) - 1) : dq[i] <= dq[i + 1]

\* C15: a rejected call records nothing and an admitted call records exactly
\* its own time: the entries of the client's deque that lie inside the window
\* are exactly the times of the admitted calls, a call is admitted exactly when
\* fewer than MAX_REQUESTS admitted calls lie inside the window (rejected calls
\* do not count), and right after a call the deque holds nothing else.
C15_RejectionRecordsNothing ==
    /\ InWindow(Window, clock) = admitted
    /\ lastCall.made => (lastCall.result <=> lastCall.prior < MAX_REQUESTS)
    /\ (lastCall.made /\ lastCall.now = clock) => Window = admitted
\* a call rejected exactly WINDOW_SEC after the admissions that fill the window
C15_Witness ==
    /\ lastCall.made /\ ~lastCall.result
    /\ lastCall.now = WINDOW_SEC /\ clock = WINDOW_SEC
    /\ Len(Window) = MAX_REQUESTS

\* C17: for calls made one after the other under a clock that never goes
\* back, the client's deque is in non-decreasing order and holds at most
\* MAX_REQUESTS entries, and at most MAX_REQUESTS admitted calls have their
\* times in the window [clock - WINDOW_SEC, clock], at every value of the clock.
C17_WindowSortedAndBounded ==
    /\ Sorted(Window)
    /\ Len(Window) <= MAX_REQUESTS
    /\ Len(admitted) <= MAX_REQUESTS
    /\ \A i \in 1..Len(admitted) : clock - WINDOW_SEC <= admitted[i] /\ admitted[i] <= clock
\* a full deque with entries of two different times
C17_Witness ==
    /\ Len(Window) = MAX_REQUESTS
    /\ Window[1] < Window[MAX_REQUESTS]
    /\ Len(admitted) = MAX_REQUESTS

\* the searches as the remote end would answer them, read without the provider loop
Searched == output.of = "call_serpapi_for_upsell"
PickOf(k) == serp_pick_upsell_from_text(AllText(input.results[k].organic))
Hit(k) == input.results[k].kind = "ok" /\ Truthy(PickOf(k))
Stops == {k \in 1..NumQueries : Hit(k) \/ input.results[k].kind = "raise"}
LastIssued == IF Stops = {} THEN NumQueries ELSE Lowest(Stops)

\* C16: the queries are issued in their fixed order; the upsell comes from the
\* first query whose result text matches a rule and no query is issued after it;
\* a query answered not-OK is skipped and the next one tried; when no query
\* yields a match the cuisine fallback on the item name is used, "Iced Tea"
\* when the name matches none.
C16_FirstMatchingQueryWins ==
    Searched =>
        /\ Len(output.result.net) = LastIssued
        /\ \A i \in 1..Len(output.result.net) :
            output.result.net[i].what = Queries(input.item_name)[i]
        /\ (Stops # {} /\ Hit(LastIssued))
            => output.result.value = <<"P","a","i","r"," ","i","t"," ","w","i","t","h"," ">> \o PickOf(LastIssued).s \o <<"!">>
        /\ Stops = {}
            => output.result.value = <<"P","a","i","r"," ","i","t"," ","w","i","t","h"," ">> \o CuisineFallback(input.item_name) \o <<"!">>
        /\ (Stops = {} /\ input.item_name = <<"M","y","s","t","e","r","y"," ","B","o","w","l">>)
            => output.result.value = <<"P","a","i","r"," ","i","t"," ","w","i","t","h"," ","I","c","e","d"," ","T","e","a","!">>
\* the first query is answered not-OK, the second and the third would match different rules
C16_Witness ==
    /\ Searched
    /\ input.results[1].kind = "not_ok" /\ Hit(2) /\ Hit(3) /\ PickOf(2) # PickOf(3)
    /\ Len(output.result.net) = 2

====
